---------------------------- MODULE Spec2Model ----------------------------
(***************************************************************************)
(* Model of the date-resolution and task-extraction core of                *)
(* ai-file-analyzer: src/parsers/date_parser.py, src/parsers/task_parser.py *)
(* and src/utils/task_analyzer.py.                                          *)
(*                                                                         *)
(* A Python str is a sequence of one-character strings; the two code       *)
(* points of the weight-lifter emoji are the characters "U+1F3CB" and      *)
(* "U+FE0F".  A note (content.splitlines()) is a sequence of lines.        *)
(* Optional values: None is <<>>, a value x is <<x>>.                      *)
(***************************************************************************)
EXTENDS Integers, Sequences, FiniteSets, TLC

None == <<>>
Some(x) == <<x>>

-----------------------------------------------------------------------------
(* Python str methods used by the code *)

UPPER == <<"A","B","C","D","E","F","G","H","I","J","K","L","M",
           "N","O","P","Q","R","S","T","U","V","W","X","Y","Z">>
LOWER == <<"a","b","c","d","e","f","g","h","i","j","k","l","m",
           "n","o","p","q","r","s","t","u","v","w","x","y","z">>
DIGITS == <<"0","1","2","3","4","5","6","7","8","9">>

IsUpper(c) == \E k \in 1..26 : UPPER[k] = c
IsLower(c) == \E k \in 1..26 : LOWER[k] = c
IsCased(c) == IsUpper(c) \/ IsLower(c)
IsDigit(c) == \E k \in 1..10 : DIGITS[k] = c
IsSpace(c) == c \in {" ", "\t"}

lower_char(c) == IF IsUpper(c) THEN LOWER[CHOOSE k \in 1..26 : UPPER[k] = c] ELSE c
upper_char(c) == IF IsLower(c) THEN UPPER[CHOOSE k \in 1..26 : LOWER[k] = c] ELSE c

\* str.lower()
lower(s) == [k \in 1..Len(s) |-> lower_char(s[k])]

\* str.title(): a cased character is upper-cased after an uncased one (or at
\* the start) and lower-cased after a cased one
title(s) ==
    [k \in 1..Len(s) |->
        IF k = 1 \/ ~IsCased(s[k-1]) THEN upper_char(s[k]) ELSE lower_char(s[k])]

\* number of leading characters of s that satisfy the set cs
LeadingIn(s, cs) ==
    IF \A k \in 1..Len(s) : s[k] \in cs THEN Len(s)
    ELSE (CHOOSE k \in 1..Len(s) : s[k] \notin cs /\ \A j \in 1..(k-1) : s[j] \in cs) - 1

TrailingIn(s, cs) ==
    IF \A k \in 1..Len(s) : s[k] \in cs THEN Len(s)
    ELSE Len(s) - (CHOOSE k \in 1..Len(s) :
                      s[k] \notin cs /\ \A j \in (k+1)..Len(s) : s[j] \in cs)

\* s[n:]
From(s, n) == SubSeq(s, n + 1, Len(s))

\* str.lstrip(" \t")
lstrip(s) == From(s, LeadingIn(s, {" ", "\t"}))

\* str.strip()
strip(s) ==
    IF \A k \in 1..Len(s) : IsSpace(s[k]) THEN <<>>
    ELSE SubSeq(s, LeadingIn(s, {" ", "\t"}) + 1, Len(s) - TrailingIn(s, {" ", "\t"}))

\* str.startswith(p)
startswith(s, p) == Len(s) >= Len(p) /\ SubSeq(s, 1, Len(p)) = p

\* str.endswith(p)
endswith(s, p) == Len(s) >= Len(p) /\ SubSeq(s, Len(s) - Len(p) + 1, Len(s)) = p

\* p in s
contains(s, p) == \E k \in 0..(Len(s) - Len(p)) : SubSeq(s, k + 1, k + Len(p)) = p

\* s.split(" ")[0]
first_word(s) ==
    IF \E k \in 1..Len(s) : s[k] = " "
    THEN SubSeq(s, 1, (CHOOSE k \in 1..Len(s) : s[k] = " " /\ \A j \in 1..(k-1) : s[j] # " ") - 1)
    ELSE s

\* s.split(): the whitespace-separated tokens of s, in order
RECURSIVE split(_)
split(s) ==
    LET t == From(s, LeadingIn(s, {" ", "\t"}))
        n == IF \E k \in 1..Len(t) : IsSpace(t[k])
             THEN (CHOOSE k \in 1..Len(t) : IsSpace(t[k]) /\ \A j \in 1..(k-1) : ~IsSpace(t[j])) - 1
             ELSE Len(t)
    IN  IF t = <<>> THEN <<>> ELSE <<SubSeq(t, 1, n)>> \o split(From(t, n))

\* int(s) of a string of decimal digits
DigitValue(c) == (CHOOSE k \in 1..10 : DIGITS[k] = c) - 1
RECURSIVE int(_)
int(s) == IF s = <<>> THEN 0 ELSE 10 * int(SubSeq(s, 1, Len(s) - 1)) + DigitValue(s[Len(s)])

-----------------------------------------------------------------------------
(* datetime arithmetic (proleptic Gregorian ordinals, ordinal 1 = 0001-01-01) *)

IsLeap(y) == y % 4 = 0 /\ (y % 100 # 0 \/ y % 400 = 0)

DAYS_IN_MONTH == <<31, 28, 31, 30, 31, 30, 31, 31, 30, 31, 30, 31>>

DaysInMonth(y, m) == IF m = 2 /\ IsLeap(y) THEN 29 ELSE DAYS_IN_MONTH[m]

RECURSIVE DaysBeforeMonth(_, _)
DaysBeforeMonth(y, m) ==
    IF m = 1 THEN 0 ELSE DaysBeforeMonth(y, m - 1) + DaysInMonth(y, m - 1)

DaysBeforeYear(y) ==
    LET p == y - 1 IN p * 365 + (p \div 4) - (p \div 100) + (p \div 400)

\* datetime(y, m, d).toordinal()
Ymd2Ord(y, m, d) == DaysBeforeYear(y) + DaysBeforeMonth(y, m) + d

\* datetime.fromordinal(n) as <<year, month, day>>
Ord2Ymd(n) ==
    LET n0   == n - 1
        n400 == n0 \div 146097
        r400 == n0 % 146097
        n100 == r400 \div 36524
        r100 == r400 % 36524
        n4   == r100 \div 1461
        r4   == r100 % 1461
        n1   == r4 \div 365
        r1   == r4 % 365
        y    == n400 * 400 + 1 + n100 * 100 + n4 * 4 + n1
    IN  IF n1 = 4 \/ n100 = 4 THEN <<y - 1, 12, 31>>
        ELSE LET m == CHOOSE mm \in 1..12 :
                        /\ DaysBeforeMonth(y, mm) <= r1
                        /\ r1 < DaysBeforeMonth(y, mm) + DaysInMonth(y, mm)
             IN  <<y, m, r1 - DaysBeforeMonth(y, m) + 1>>

\* datetime.weekday(): Monday is 0 ... Sunday is 6
weekday(ord) == (ord + 6) % 7

\* datetime.MAXYEAR: the largest ordinal is 9999-12-31
MaxOrdinal == Ymd2Ord(9999, 12, 31)

Pad2(n) == <<DIGITS[(n \div 10) + 1], DIGITS[(n % 10) + 1]>>
Pad4(n) == <<DIGITS[(n \div 1000) + 1], DIGITS[((n \div 100) % 10) + 1],
             DIGITS[((n \div 10) % 10) + 1], DIGITS[(n % 10) + 1]>>

\* "%m-%d-%Y" of the date <<year, month, day>>
format_mdY(ymd) == Pad2(ymd[2]) \o <<"-">> \o Pad2(ymd[3]) \o <<"-">> \o Pad4(ymd[1])

\* datetime.strftime("%m-%d-%Y") of the date with ordinal ord, for the years
\* 1000..9999 (below 1000 the width of %Y depends on the C library; no input
\* of the specifications below reaches such a date)
strftime_mdY(ord) == format_mdY(Ord2Ymd(ord))

\* strptime's %m at the head of s: the number of characters it takes (0: no match)
MatchMonth(s) ==
    IF Len(s) >= 2 /\ s[1] = "1" /\ s[2] \in {"0", "1", "2"} THEN 2
    ELSE IF Len(s) >= 2 /\ s[1] = "0" /\ IsDigit(s[2]) /\ s[2] # "0" THEN 2
    ELSE IF Len(s) >= 1 /\ IsDigit(s[1]) /\ s[1] # "0" THEN 1
    ELSE 0

\* strptime's %d at the head of s
MatchDay(s) ==
    IF Len(s) >= 2 /\ s[1] = "3" /\ s[2] \in {"0", "1"} THEN 2
    ELSE IF Len(s) >= 2 /\ s[1] \in {"1", "2"} /\ IsDigit(s[2]) THEN 2
    ELSE IF Len(s) >= 2 /\ s[1] = "0" /\ IsDigit(s[2]) /\ s[2] # "0" THEN 2
    ELSE IF Len(s) >= 1 /\ IsDigit(s[1]) /\ s[1] # "0" THEN 1
    ELSE IF Len(s) >= 2 /\ s[1] = " " /\ IsDigit(s[2]) /\ s[2] # "0" THEN 2
    ELSE 0

\* strptime's %Y at the head of s
MatchYear(s) ==
    IF Len(s) >= 4 /\ \A k \in 1..4 : IsDigit(s[k]) THEN 4 ELSE 0

\* the datetime of the fields <<year, month, day>> strptime found: Some(ordinal),
\* or None when there are none or datetime refuses them (ValueError)
to_datetime(ymd) ==
    IF ymd # None /\ ymd[1] >= 1 /\ ymd[3] <= DaysInMonth(ymd[1], ymd[2])
    THEN Some(Ymd2Ord(ymd[1], ymd[2], ymd[3])) ELSE None

\* "%m-%d-%Y" on s, the month taking nm characters and the day nd: the
\* fields <<year, month, day>>, or None when the format does not match all of s
fields_mdY(s, nm, nd) ==
    IF /\ nm > 0 /\ nd > 0
       /\ Len(s) = nm + nd + 6
       /\ s[nm + 1] = "-" /\ s[nm + nd + 2] = "-"
       /\ MatchYear(From(s, nm + nd + 2)) = 4
    THEN <<int(From(s, nm + nd + 2)), int(SubSeq(s, 1, nm)),
           int(strip(SubSeq(s, nm + 2, nm + nd + 1)))>>
    ELSE None

day_after_month(s, nm) == IF Len(s) > nm THEN MatchDay(From(s, nm + 1)) ELSE 0

\* datetime.strptime(s, "%m-%d-%Y"): Some(ordinal), or None for ValueError
strptime_mdY(s) ==
    to_datetime(fields_mdY(s, MatchMonth(s), day_after_month(s, MatchMonth(s))))

\* "%Y-%m-%d" on s, the month taking nm characters and the day nd
fields_Ymd(s, nm, nd) ==
    IF /\ MatchYear(s) = 4 /\ nm > 0 /\ nd > 0
       /\ Len(s) = nm + nd + 6
       /\ s[5] = "-" /\ s[nm + 6] = "-"
    THEN <<int(SubSeq(s, 1, 4)), int(SubSeq(s, 6, nm + 5)),
           int(strip(From(s, nm + 6)))>>
    ELSE None

month_after_year(s) == IF Len(s) > 5 THEN MatchMonth(From(s, 5)) ELSE 0

\* datetime.strptime(s, "%Y-%m-%d"): Some(ordinal), or None for ValueError
strptime_Ymd(s) ==
    to_datetime(fields_Ymd(s, month_after_year(s),
                           day_after_month(s, 5 + month_after_year(s))))


-----------------------------------------------------------------------------
(* The lines notes are made of.  A line is named by its text and TEXT gives  *)
(* its characters; {WL} in a name stands for the weight-lifter emoji and \t  *)
(* for a tab.                                                               *)

TEXT ==
    "[[2024 Daily TODO]] - [Week] 10 / [Day] 67" :> <<"[","[","2","0","2","4"," ","D","a","i","l","y"," ","T","O","D","O","]","]"," ","-"," ","[","W","e","e","k","]"," ","1","0"," ","/"," ","[","D","a","y","]"," ","6","7">> @@
    "[[0000 Daily TODO]] - [Week] 1 / [Day] 1" :> <<"[","[","0","0","0","0"," ","D","a","i","l","y"," ","T","O","D","O","]","]"," ","-"," ","[","W","e","e","k","]"," ","1"," ","/"," ","[","D","a","y","]"," ","1">> @@
    "[[2024 Daily TODO]] - [Week] 10 / [Day] 99999999" :> <<"[","[","2","0","2","4"," ","D","a","i","l","y"," ","T","O","D","O","]","]"," ","-"," ","[","W","e","e","k","]"," ","1","0"," ","/"," ","[","D","a","y","]"," ","9","9","9","9","9","9","9","9">> @@
    "## Tags" :> <<"#","#"," ","T","a","g","s">> @@
    "#daily #03-06-2024" :> <<"#","d","a","i","l","y"," ","#","0","3","-","0","6","-","2","0","2","4">> @@
    "#3-6-2024" :> <<"#","3","-","6","-","2","0","2","4">> @@
    "#2024-03-06" :> <<"#","2","0","2","4","-","0","3","-","0","6">> @@
    "#daily" :> <<"#","d","a","i","l","y">> @@
    " ## Tags " :> <<" ","#","#"," ","T","a","g","s"," ">> @@
    "#3-6-2024 #2024-03-06" :> <<"#","3","-","6","-","2","0","2","4"," ","#","2","0","2","4","-","0","3","-","0","6">> @@
    "# #13-01-2024 03-06-2024" :> <<"#"," ","#","1","3","-","0","1","-","2","0","2","4"," ","0","3","-","0","6","-","2","0","2","4">> @@
    "### Sunday" :> <<"#","#","#"," ","S","u","n","d","a","y">> @@
    "### Monday" :> <<"#","#","#"," ","M","o","n","d","a","y">> @@
    "### Tuesday" :> <<"#","#","#"," ","T","u","e","s","d","a","y">> @@
    "### Wednesday" :> <<"#","#","#"," ","W","e","d","n","e","s","d","a","y">> @@
    "#### thursday gym" :> <<"#","#","#","#"," ","t","h","u","r","s","d","a","y"," ","g","y","m">> @@
    "### FRIDAY" :> <<"#","#","#"," ","F","R","I","D","A","Y">> @@
    "#### Saturday" :> <<"#","#","#","#"," ","S","a","t","u","r","d","a","y">> @@
    "### Notes" :> <<"#","#","#"," ","N","o","t","e","s">> @@
    "### All" :> <<"#","#","#"," ","A","l","l">> @@
    "  ### Wednesday" :> <<" "," ","#","#","#"," ","W","e","d","n","e","s","d","a","y">> @@
    "- [x] Workout" :> <<"-"," ","[","x","]"," ","W","o","r","k","o","u","t">> @@
    "  - [ ] Bench press" :> <<" "," ","-"," ","["," ","]"," ","B","e","n","c","h"," ","p","r","e","s","s">> @@
    "  - [x] Squats" :> <<" "," ","-"," ","[","x","]"," ","S","q","u","a","t","s">> @@
    "- [x] {WL} evening session" :> <<"-"," ","[","x","]"," ","U+1F3CB","U+FE0F"," ","e","v","e","n","i","n","g"," ","s","e","s","s","i","o","n">> @@
    "- [X] Run" :> <<"-"," ","[","X","]"," ","R","u","n">> @@
    "- [-] Nap" :> <<"-"," ","[","-","]"," ","N","a","p">> @@
    " - [ ] Study Hebrew" :> <<" ","-"," ","["," ","]"," ","S","t","u","d","y"," ","H","e","b","r","e","w">> @@
    "    - [x] workout: massage scalp, red light mask" :> <<" "," "," "," ","-"," ","[","x","]"," ","w","o","r","k","o","u","t",":"," ","m","a","s","s","a","g","e"," ","s","c","a","l","p",","," ","r","e","d"," ","l","i","g","h","t"," ","m","a","s","k">> @@
    "\t- [ ] take out trash" :> <<"\t","-"," ","["," ","]"," ","t","a","k","e"," ","o","u","t"," ","t","r","a","s","h">> @@
    "- [ ]" :> <<"-"," ","["," ","]">> @@
    "" :> <<>> @@
    "some text" :> <<"s","o","m","e"," ","t","e","x","t">>

L(name) == TEXT[name]

\* content.splitlines(): the character lines of a note
splitlines(c) == [k \in 1..Len(c) |-> L(c[k])]

-----------------------------------------------------------------------------
(* parsers/date_parser.py *)

\* is_valid_date: either format parses
is_valid_date(date_str) ==
    strptime_mdY(date_str) # None \/ strptime_Ymd(date_str) # None

\* Steps of the regular expression of extract_top_line_info on s: each gives
\* the offset after its part of the pattern, -1 when the part does not match
after_lit(s, p, lit) ==
    IF p >= 0 /\ startswith(From(s, p), lit) THEN p + Len(lit) ELSE -1

after_space(s, p) ==
    IF p >= 0 THEN p + LeadingIn(From(s, p), {" ", "\t"}) ELSE -1

after_digits(s, p) ==
    IF p >= 0 /\ p < Len(s) /\ IsDigit(s[p + 1])
    THEN p + LeadingIn(From(s, p), {DIGITS[k] : k \in 1..10}) ELSE -1

after_year(s, p) ==
    IF p >= 0 /\ Len(s) >= p + 4 /\ \A k \in 1..4 : IsDigit(s[p + k])
    THEN p + 4 ELSE -1

\*   \[\[([\d]{4}) Daily TODO\]\]\s*-\s*\[Week\]\s*
week_start(s, p) ==
    after_space(s, after_lit(s, after_space(s, after_lit(s, after_space(s,
        after_lit(s, after_year(s, after_lit(s, p, <<"[","[">>)),
                  <<" ","D","a","i","l","y"," ","T","O","D","O","]","]">>)),
        <<"-">>)), <<"[","W","e","e","k","]">>))

\*   (\d+)
week_end(s, p) == after_digits(s, week_start(s, p))

\*   \s*/\s*\[Day\]\s*
day_start(s, p) ==
    after_space(s, after_lit(s, after_space(s, after_lit(s, after_space(s,
        week_end(s, p)), <<"/">>)), <<"[","D","a","y","]">>))

\*   (\d+)
day_end(s, p) == after_digits(s, day_start(s, p))

\* the groups of the pattern matched at offset p: <<year, week, day>>
top_line_groups(s, p) ==
    <<int(SubSeq(s, p + 3, p + 6)),
      int(SubSeq(s, week_start(s, p) + 1, week_end(s, p))),
      int(SubSeq(s, day_start(s, p) + 1, day_end(s, p)))>>

\* the groups at the leftmost of the offsets ps, None when there is none
leftmost_groups(s, ps) ==
    IF ps = {} THEN None
    ELSE Some(top_line_groups(s, CHOOSE p \in ps : \A q \in ps : p <= q))

\* re.search(top_line_pattern, line): Some(<<year, week, day>>) or None
top_line_search(s) == leftmost_groups(s, {p \in 0..Len(s) : day_end(s, p) >= 0})

\* the first element of xs that is not None, None when there is none
RECURSIVE first_some(_)
first_some(xs) ==
    IF xs = <<>> THEN None
    ELSE IF Head(xs) # None THEN Head(xs) ELSE first_some(Tail(xs))

\* extract_top_line_info: Some(<<year, week_num, day_of_year>>) of the first
\* line that matches, or None for (None, None, None)
extract_top_line_info(c) ==
    first_some([k \in 1..Len(c) |-> top_line_search(L(c[k]))])

\* base_date of get_base_date as [raised, value], given the ordinal of
\* January 1 plus the days: the sum raises OverflowError outside
\* 0001-01-01..9999-12-31
checked_date(ord) ==
    IF ord < 1 \/ ord > MaxOrdinal THEN [raised |-> "OverflowError", value |-> 0]
    ELSE [raised |-> "none", value |-> ord]

\* get_base_date: [raised, value]; datetime(year, 1, 1) raises ValueError
\* outside 1..9999
get_base_date(y, doy) ==
    IF y < 1 \/ y > 9999 THEN [raised |-> "ValueError", value |-> 0]
    ELSE checked_date(Ymd2Ord(y, 1, 1) + (doy - 1))

\* the tag, without its #, when it is a date tag
date_of_tag(tag) ==
    IF startswith(tag, <<"#">>) /\ Len(tag) > 1 /\ is_valid_date(From(tag, 1))
    THEN Some(From(tag, 1)) ELSE None

\* the loop over the tags of the line after the Tags heading
first_date_tag(tags) == first_some([k \in 1..Len(tags) |-> date_of_tag(tags[k])])

\* the least of the line numbers ks, 0 when there is none
first_line(ks) == IF ks = {} THEN 0 ELSE CHOOSE k \in ks : \A j \in ks : k <= j

\* the line the tag loop reads: a "## Tags" line only sets tags_section and
\* continues, so it is line number k, the first line after the first of the
\* "## Tags" lines ks that is not one of them (0: there is no such line)
tags_line_at(c, k) == IF k = 0 THEN <<>> ELSE L(c[k])

tags_line(c, ks) ==
    IF ks = {} THEN <<>>
    ELSE tags_line_at(c, first_line({k \in (first_line(ks) + 1)..Len(c) : k \notin ks}))

\* extract_date_from_tags: Some(date) or None
extract_date_from_tags(c) ==
    first_date_tag(split(strip(tags_line(c,
        {k \in 1..Len(c) : strip(L(c[k])) = <<"#","#"," ","T","a","g","s">>}))))


day_map ==
    <<"S","u","n","d","a","y">> :> 0 @@
    <<"M","o","n","d","a","y">> :> 1 @@
    <<"T","u","e","s","d","a","y">> :> 2 @@
    <<"W","e","d","n","e","s","d","a","y">> :> 3 @@
    <<"T","h","u","r","s","d","a","y">> :> 4 @@
    <<"F","r","i","d","a","y">> :> 5 @@
    <<"S","a","t","u","r","d","a","y">> :> 6


\* a faulty variant of python_to_template_day that keeps Monday at 0; the
\* weekday properties of the mapper are expected to reject it
monday_first_day(python_wd) == python_wd

\* python_to_template_day, nested in build_day_to_date_map
python_to_template_day(python_wd) == (python_wd + 1) % 7

\* a line the mapper takes as a heading
mapper_is_heading(line) ==
    startswith(line, <<"#","#","#"," ">>) \/ startswith(line, <<"#","#","#","#"," ">>)

\* dname of a heading line of the mapper
mapper_dname(line) ==
    title(first_word(IF startswith(line, <<"#","#","#","#"," ">>)
                     THEN strip(From(line, 4)) ELSE strip(From(line, 3))))

\* found_days of build_day_to_date_map, as the set of its names
found_days(c) ==
    {mapper_dname(L(c[k])) : k \in {j \in 1..Len(c) : mapper_is_heading(L(c[j]))}}
        \cap DOMAIN day_map

\* structured mode: [raised, anchored, base_date, base_template_day] of the
\* result b of get_base_date
structured_base(b) ==
    IF b.raised # "none"
    THEN [raised |-> b.raised, anchored |-> TRUE, base_date |-> 0, base_template_day |-> 0]
    ELSE [raised |-> "none", anchored |-> TRUE, base_date |-> b.value,
          base_template_day |-> python_to_template_day(weekday(b.value))]

\* a faulty variant of fallback_base that takes the weekday of the fallback
\* date as the base weekday, as structured mode does; the property of the
\* fallback offsets is expected to reject it
fallback_base_true_weekday(b) ==
    IF b = None
    THEN [raised |-> "ValueError", anchored |-> TRUE, base_date |-> 0, base_template_day |-> 0]
    ELSE [raised |-> "none", anchored |-> TRUE, base_date |-> b[1],
          base_template_day |-> python_to_template_day(weekday(b[1]))]

\* fallback mode, of the result b of strptime
fallback_base(b) ==
    IF b = None
    THEN [raised |-> "ValueError", anchored |-> TRUE, base_date |-> 0, base_template_day |-> 0]
    ELSE [raised |-> "none", anchored |-> TRUE, base_date |-> b[1], base_template_day |-> 0]

\* base_date and base_template_day of build_day_to_date_map
map_base(y, doy, fallback_date) ==
    IF y # None /\ doy # None THEN structured_base(get_base_date(y[1], doy[1]))
    ELSE IF fallback_date # None /\ fallback_date[1] # <<>>
    THEN fallback_base(strptime_mdY(fallback_date[1]))
    ELSE [raised |-> "none", anchored |-> FALSE, base_date |-> 0, base_template_day |-> 0]

\* a faulty variant of day_date that subtracts the offset; the properties
\* of the mapped dates are expected to reject it
day_date_backwards(base, dname) ==
    base.base_date - (day_map[dname] - base.base_template_day)

\* the date of day dname: base_date + timedelta(days=offset)
day_date(base, dname) == base.base_date + (day_map[dname] - base.base_template_day)

\* the mapping loop of build_day_to_date_map over the names found
map_days(base, names) ==
    IF base.raised # "none" THEN [raised |-> base.raised, value |-> <<>>]
    ELSE IF ~base.anchored \/ names = {} THEN [raised |-> "none", value |-> <<>>]
    ELSE IF \E n \in names : day_date(base, n) < 1 \/ day_date(base, n) > MaxOrdinal
    THEN [raised |-> "OverflowError", value |-> <<>>]
    ELSE [raised |-> "none",
          value |-> [n \in names |-> strftime_mdY(day_date(base, n))]]

\* build_day_to_date_map: [raised, value]; value is the mapping, raised the
\* exception that ends the call ("none": it returns)
build_day_to_date_map(y, doy, c, fallback_date) ==
    map_days(map_base(y, doy, fallback_date), found_days(c))


-----------------------------------------------------------------------------
(* parsers/task_parser.py *)

\* parse_task_line: Some([status, text]) or None
parse_task_line(line) ==
    IF startswith(line, <<"-"," ","[","x","]">>) \/ startswith(line, <<"-"," ","["," ","]">>)
    THEN Some([status |-> IF line[4] = "x" THEN "completed" ELSE "not completed",
               text   |-> strip(From(line, 5))])
    ELSE None

\* get_indent_level
get_indent_level(line) == Len(line) - Len(lstrip(line))

\* the three kinds of line extract_tasks tells apart, on the stripped line
is_heading_line(line) ==
    LET stripped_line == strip(line)
    IN  startswith(stripped_line, <<"#","#","#","#"," ">>)
          \/ startswith(stripped_line, <<"#","#","#"," ">>)

is_checkbox_line(line) ==
    ~is_heading_line(line) /\ startswith(strip(line), <<"-"," ","[">>)

\* day_name of a heading line of extract_tasks
day_name(line) ==
    LET stripped_line == strip(line)
        heading_text  == IF startswith(stripped_line, <<"#","#","#","#"," ">>)
                         THEN strip(From(stripped_line, 4))
                         ELSE strip(From(stripped_line, 3))
    IN  title(first_word(heading_text))

\* a faulty variant of heading_date that looks the day up in lower case,
\* where no key of the map is; the heading properties are expected to reject it
heading_date_lowercase(line, map) ==
    IF lower(day_name(line)) \in DOMAIN map THEN Some(map[lower(day_name(line))]) ELSE None

\* current_date after a heading line
heading_date(line, map) ==
    IF day_name(line) \in DOMAIN map THEN Some(map[day_name(line)]) ELSE None

\* a faulty variant of drop_last that goes back to the root on any decrease;
\* the ancestor property of unit-step runs is expected to reject it
drop_to_root(stack, levels_up) == <<>>

\* a faulty variant of drop_last that goes up one tree level whatever the
\* indentation lost; the properties of the pop count are expected to reject it
drop_one_level(stack, levels_up) == SubSeq(stack, 1, Len(stack) - 1)

\* task_stack[:-levels_up] for levels_up > 0
drop_last(stack, levels_up) ==
    IF levels_up >= Len(stack) THEN <<>> ELSE SubSeq(stack, 1, Len(stack) - levels_up)

\* a faulty variant of replace_top that pushes the task and keeps the old top;
\* the properties of the stack after a decrease are expected to reject it
push_beside_top(stack, task_info) == Append(stack, task_info)

\* task_stack[-1] = task_info, or append when the stack is empty
replace_top(stack, task_info) ==
    IF stack # <<>> THEN [stack EXCEPT ![Len(stack)] = task_info]
    ELSE Append(stack, task_info)

\* a faulty variant of stack_update that, after a decrease, leaves the entry
\* it went back to on top instead of the new task; the property of the chain
\* handed to process_task is expected to reject it
stack_update_keeps_ancestor(stack, prev, indent_level, task_info) ==
    IF indent_level > prev THEN Append(stack, task_info)
    ELSE IF indent_level = prev THEN replace_top(stack, task_info)
    ELSE IF drop_last(stack, prev - indent_level) # <<>>
    THEN drop_last(stack, prev - indent_level)
    ELSE <<task_info>>

\* a faulty variant of stack_update that never enters a deeper level: a more
\* indented task replaces the top
stack_update_flat(stack, prev, indent_level, task_info) ==
    IF indent_level >= prev THEN replace_top(stack, task_info)
    ELSE replace_top(drop_last(stack, prev - indent_level), task_info)

\* a faulty variant of stack_update that keeps siblings: a task at the same
\* indentation is pushed beside the top
stack_update_siblings(stack, prev, indent_level, task_info) ==
    IF indent_level >= prev THEN Append(stack, task_info)
    ELSE replace_top(drop_last(stack, prev - indent_level), task_info)

\* task_stack after a task line at indent_level
stack_update(stack, prev, indent_level, task_info) ==
    IF indent_level > prev THEN Append(stack, task_info)
    ELSE IF indent_level = prev THEN replace_top(stack, task_info)
    ELSE replace_top(drop_last(stack, prev - indent_level), task_info)

\* a faulty variant of call_locals that keeps what the call before left, as
\* module-level state would; the repeatability of extract_tasks is expected
\* to reject it
call_locals_kept(left) == left

\* the locals a call of extract_tasks starts with, whatever the call before
\* left in them
call_locals(left) == [task_stack |-> <<>>, prev_indent_level |-> 0, current_date |-> None]

-----------------------------------------------------------------------------
(* utils/task_analyzer.py *)

habits_list ==
    <<<<"s","t","u","d","y"," ","h","e","b","r","e","w">>,
      <<"m","a","s","s","a","g","e"," ","s","c","a","l","p">>,
      <<"r","e","d"," ","l","i","g","h","t"," ","m","a","s","k">>,
      <<"t","a","k","e"," ","o","u","t"," ","t","r","a","s","h">>,
      <<"c","h","e","c","k"," ","p","l","a","n","t","s"," ","w","a","t","e","r">>,
      <<"w","e","e","k","l","y"," ","p","l","a","n","n","i","n","g">>,
      <<"f","a","n","t","a","s","y"," ","w","a","i","v","e","r","s">>,
      <<"s","e","t"," ","f","a","n","t","a","s","y"," ","l","i","n","e"," ","u","p","s">>>>

\* stats["tasks_by_date"][date] as first created
new_date_stats ==
    [tasks_total |-> 0, tasks_completed |-> 0, workouts |-> <<>>, habits |-> <<>>]

\* a faulty variant of workout_records that classifies a chain by the text
\* of its root; the property of the workout trigger is expected to reject it
workout_records_by_root(chain) ==
    LET leaf      == chain[Len(chain)]
        task_text == lower(chain[1].text)
    IN  IF contains(task_text, <<"w","o","r","k","o","u","t">>)
           \/ contains(task_text, <<"U+1F3CB","U+FE0F">>)
        THEN IF Len(chain) > 1
             THEN [k \in 1..(Len(chain) - 1) |->
                      [type |-> chain[k+1].text, status |-> chain[k+1].status]]
             ELSE <<[type |-> task_text, status |-> leaf.status]>>
        ELSE <<>>

\* the workout records process_task appends for a chain
workout_records(chain) ==
    LET leaf      == chain[Len(chain)]
        task_text == lower(leaf.text)
    IN  IF contains(task_text, <<"w","o","r","k","o","u","t">>)
           \/ contains(task_text, <<"U+1F3CB","U+FE0F">>)
        THEN IF Len(chain) > 1
             THEN [k \in 1..(Len(chain) - 1) |->
                      [type |-> chain[k+1].text, status |-> chain[k+1].status]]
             ELSE <<[type |-> task_text, status |-> leaf.status]>>
        ELSE <<>>

\* a faulty variant of habits_update that stops at the first phrase of
\* habits_list the text holds; the property of the habit records is
\* expected to reject it
habits_update_first_match(habits, task_text, status) ==
    LET ks  == {k \in 1..Len(habits_list) : contains(task_text, habits_list[k])}
        hit == {habits_list[k] : k \in {j \in ks : \A i \in ks : j <= i}}
    IN  [h \in (DOMAIN habits) \cup hit |->
            IF h \in hit
            THEN (IF h \in DOMAIN habits THEN habits[h] ELSE <<>>) \o <<[status |-> status]>>
            ELSE habits[h]]

\* date_stats["habits"] after the habit loop of process_task
habits_update(habits, task_text, status) ==
    LET hit == {h \in {habits_list[k] : k \in 1..Len(habits_list)} : contains(task_text, h)}
    IN  [h \in (DOMAIN habits) \cup hit |->
            IF h \in hit
            THEN (IF h \in DOMAIN habits THEN habits[h] ELSE <<>>) \o <<[status |-> status]>>
            ELSE habits[h]]

\* a faulty variant of update_date_stats that counts every task of the date
\* as completed; the counter invariant is expected to reject it
update_date_stats_all_completed(ds, chain) ==
    [tasks_total     |-> ds.tasks_total + 1,
     tasks_completed |-> ds.tasks_completed + 1,
     workouts        |-> ds.workouts \o workout_records(chain),
     habits          |-> habits_update(ds.habits, lower(chain[Len(chain)].text),
                                       chain[Len(chain)].status)]

\* the per-date part of process_task: date_stats after the task at the end
\* of chain is counted and classified
update_date_stats(ds, chain) ==
    [tasks_total     |-> ds.tasks_total + 1,
     tasks_completed |-> ds.tasks_completed
                           + (IF chain[Len(chain)].status = "completed" THEN 1 ELSE 0),
     workouts        |-> ds.workouts \o workout_records(chain),
     habits          |-> habits_update(ds.habits, lower(chain[Len(chain)].text),
                                       chain[Len(chain)].status)]

\* a faulty variant of with_date that starts the entry of d afresh on every
\* call; the merge property is expected to reject it
with_date_fresh(by_date, d) ==
    IF d \in DOMAIN by_date THEN [by_date EXCEPT ![d] = new_date_stats]
    ELSE by_date @@ (d :> new_date_stats)

\* a faulty variant of with_date that keeps the entry of d alone and drops
\* the other dates; the growth property is expected to reject it
with_date_alone(by_date, d) ==
    d :> (IF d \in DOMAIN by_date THEN by_date[d] ELSE new_date_stats)

\* stats["tasks_by_date"] with the entry for date d created when absent
with_date(by_date, d) ==
    IF d \in DOMAIN by_date THEN by_date ELSE by_date @@ (d :> new_date_stats)

\* a faulty variant of process_task that counts a task without a date in the
\* global counters; the no-op property for undated tasks is expected to
\* reject it
process_task_undated(chain, date, st) ==
    IF date = None \/ date[1] = <<>>
    THEN [st EXCEPT !.tasks_total = @ + 1]
    ELSE [tasks_total     |-> st.tasks_total + 1,
          tasks_completed |-> st.tasks_completed
                                + (IF chain[Len(chain)].status = "completed" THEN 1 ELSE 0),
          tasks_by_date   |-> [with_date(st.tasks_by_date, date[1]) EXCEPT
                                  ![date[1]] = update_date_stats(@, chain)]]

\* process_task for a non-empty chain: the stats after the call
process_task(chain, date, st) ==
    IF date = None \/ date[1] = <<>> THEN st
    ELSE [tasks_total     |-> st.tasks_total + 1,
          tasks_completed |-> st.tasks_completed
                                + (IF chain[Len(chain)].status = "completed" THEN 1 ELSE 0),
          tasks_by_date   |-> [with_date(st.tasks_by_date, date[1]) EXCEPT
                                  ![date[1]] = update_date_stats(@, chain)]]

\* the anchor process_input_file uses: [year, day_of_year, date, fallback]
\* where fallback is the tag date when it ends with input_year, else None
file_anchor(top, tags, iy) ==
    [year        |-> IF top = None THEN None ELSE Some(top[1][1]),
     day_of_year |-> IF top = None THEN None ELSE Some(top[1][3]),
     date        |-> tags,
     fallback    |-> IF tags # None /\ tags[1] # <<>> /\ endswith(tags[1], iy)
                     THEN tags ELSE None]

\* the map process_input_file builds first
file_map(a, c) ==
    IF a.year # None /\ a.day_of_year # None
    THEN build_day_to_date_map(a.year, a.day_of_year, c, None)
    ELSE IF a.fallback # None THEN build_day_to_date_map(None, None, c, a.fallback)
    ELSE [raised |-> "none", value |-> <<>>]

\* what process_input_file hands to extract_tasks: [raised, scan, value,
\* anchor]: the exception that ends the call ("none": none), whether
\* extract_tasks is called, and the map it is called with
file_choice(a, built) ==
    IF built.raised # "none"
    THEN [raised |-> built.raised, scan |-> FALSE, value |-> <<>>, anchor |-> a]
    ELSE IF built.value # <<>>
    THEN [raised |-> "none", scan |-> TRUE, value |-> built.value, anchor |-> a]
    ELSE IF a.fallback # None
    THEN [raised |-> "none", scan |-> TRUE, anchor |-> a,
          value |-> (<<"A","l","l">> :> a.fallback[1])]
    ELSE [raised |-> "none", scan |-> FALSE, value |-> <<>>, anchor |-> a]

file_choice_of(a, c) == file_choice(a, file_map(a, c))

\* process_input_file without the AI path, up to the call of extract_tasks
process_input_file(c, iy) ==
    file_choice_of(file_anchor(extract_top_line_info(c), extract_date_from_tags(c), iy), c)


-----------------------------------------------------------------------------
(* State *)

VARIABLES
    content,            \* the note being processed: its lines, by name
    input_year,         \* process_input_file's input_year
    pc,                 \* "idle", "extract_tasks", "done", "raised", "args", "returned"
    pos,                \* number of lines extract_tasks has consumed
    line,               \* the line consumed last
    event,              \* what the last line did: a line_event
    year,               \* year of the banner, or the year argument of the mapper
    day_of_year,        \* day of the banner, or the day_of_year argument
    date_from_tags,     \* the tag date, or the fallback_date argument
    day_to_date_map,    \* the map extract_tasks reads, or the mapper's result
    task_stack,         \* extract_tasks' task_stack
    prev_indent_level,  \* extract_tasks' prev_indent_level
    current_date,       \* extract_tasks' current_date
    stats,              \* the stats dictionary
    raised,             \* the exception that ended the call, "none" if none
    runs                \* the stats each finished call of a repeated run left

vars == <<content, input_year, pc, pos, line, event, year, day_of_year, date_from_tags,
          day_to_date_map, task_stack, prev_indent_level, current_date, stats, raised,
          runs>>

anchors == <<content, input_year, year, day_of_year, date_from_tags, day_to_date_map, runs>>

\* stats as main() creates it
new_stats == [tasks_total |-> 0, tasks_completed |-> 0, tasks_by_date |-> <<>>]

\* what a line did: its kind, the date it was read under, the chain handed
\* to process_task, and for a task line its indent_level with the task_stack
\* and prev_indent_level it met (all empty or 0 for the other kinds)
line_event(kind, date, chain, indent, stack, prev) ==
    [kind |-> kind, date |-> date, chain |-> chain,
     indent |-> indent, stack_before |-> stack, indent_before |-> prev]

no_event == line_event("start", None, <<>>, 0, <<>>, 0)

-----------------------------------------------------------------------------
(* One iteration of the loop of extract_tasks, for the line named nm *)

\* a heading line
scan_heading(nm) ==
    /\ is_heading_line(L(nm))
    /\ current_date' = heading_date(L(nm), day_to_date_map)
    /\ task_stack' = <<>>
    /\ prev_indent_level' = 0
    /\ line' = nm
    /\ event' = line_event("heading", current_date', <<>>, 0, <<>>, 0)
    /\ UNCHANGED stats

\* a checkbox line that parse_task_line parses: the stack is updated and
\* process_task is called with a copy of it
scan_task(nm) ==
    /\ is_checkbox_line(L(nm))
    /\ parse_task_line(strip(L(nm))) # None
    /\ LET task_info    == parse_task_line(strip(L(nm)))[1]
           indent_level == get_indent_level(L(nm))
           new_stack    == stack_update(task_stack, prev_indent_level, indent_level, task_info)
       IN  /\ task_stack' = new_stack
           /\ prev_indent_level' = indent_level
           /\ stats' = process_task(new_stack, current_date, stats)
           /\ event' = line_event("task", current_date, new_stack, indent_level,
                                 task_stack, prev_indent_level)
    /\ line' = nm
    /\ UNCHANGED current_date

\* a checkbox line for which parse_task_line returns None: neither branch runs
scan_skipped(nm) ==
    /\ is_checkbox_line(L(nm))
    /\ parse_task_line(strip(L(nm))) = None
    /\ line' = nm
    /\ event' = line_event("skipped", current_date, <<>>, 0, <<>>, 0)
    /\ UNCHANGED <<current_date, task_stack, prev_indent_level, stats>>

\* a faulty variant of scan_other that forgets the date as it forgets the
\* stack; the frame property of current_date is expected to reject it
scan_other_clears_date(nm) ==
    /\ ~is_heading_line(L(nm))
    /\ ~is_checkbox_line(L(nm))
    /\ prev_indent_level' = 0
    /\ task_stack' = <<>>
    /\ current_date' = None
    /\ line' = nm
    /\ event' = line_event("other", current_date', <<>>, 0, <<>>, 0)
    /\ UNCHANGED stats

\* any other line
scan_other(nm) ==
    /\ ~is_heading_line(L(nm))
    /\ ~is_checkbox_line(L(nm))
    /\ prev_indent_level' = 0
    /\ task_stack' = <<>>
    /\ line' = nm
    /\ event' = line_event("other", current_date, <<>>, 0, <<>>, 0)
    /\ UNCHANGED <<current_date, stats>>

-----------------------------------------------------------------------------
(* SpecParse: extract_tasks over every note of at most MaxLines lines, with *)
(* a map the callers build                                                  *)

MaxLines == 4

ParseLines ==
    {"### Wednesday", "#### thursday gym", "### Notes",
     "- [x] Workout", "  - [ ] Bench press", "  - [x] Squats",
     "- [x] {WL} evening session", "- [X] Run", "- [-] Nap", " - [ ] Study Hebrew",
     "    - [x] workout: massage scalp, red light mask", "\t- [ ] take out trash",
     "- [ ]", "", "some text"}

\* the map of a note of day 67 of 2024 with a Wednesday and a Thursday
\* heading, and process_input_file's single_day_map
ParseMaps ==
    {build_day_to_date_map(Some(2024), Some(67),
                           <<"### Wednesday", "#### thursday gym">>, None).value,
     <<"A","l","l">> :> <<"0","3","-","0","6","-","2","0","2","4">>}

InitParse ==
    /\ content = <<>>
    /\ input_year = None
    /\ pc = "extract_tasks"
    /\ pos = 0
    /\ line = ""
    /\ event = no_event
    /\ year = None
    /\ day_of_year = None
    /\ date_from_tags = None
    /\ day_to_date_map \in ParseMaps
    /\ task_stack = <<>>
    /\ prev_indent_level = 0
    /\ current_date = None
    /\ stats = new_stats
    /\ raised = "none"
    /\ runs = <<>>

ParseStep(nm) ==
    /\ pc = "extract_tasks"
    /\ pos < MaxLines
    /\ pos' = pos + 1
    /\ UNCHANGED <<anchors, pc, raised>>

ParseHeading == \E nm \in ParseLines : ParseStep(nm) /\ scan_heading(nm)

ParseTask == \E nm \in ParseLines : ParseStep(nm) /\ scan_task(nm)

ParseSkipped == \E nm \in ParseLines : ParseStep(nm) /\ scan_skipped(nm)

ParseOther == \E nm \in ParseLines : ParseStep(nm) /\ scan_other(nm)

\* the note ends and extract_tasks is called for the next note, with the
\* same stats
ParseNextNote ==
    /\ pc = "extract_tasks"
    /\ pos > 0
    /\ pos < MaxLines
    /\ event.kind # "start"
    /\ \E m \in ParseMaps : day_to_date_map' = m
    /\ task_stack' = <<>>
    /\ prev_indent_level' = 0
    /\ current_date' = None
    /\ event' = no_event
    /\ line' = ""
    /\ UNCHANGED <<content, input_year, year, day_of_year, date_from_tags, pc, pos,
                   stats, raised, runs>>

NextParse == ParseHeading \/ ParseTask \/ ParseSkipped \/ ParseOther \/ ParseNextNote

SpecParse == InitParse /\ [][NextParse]_vars


-----------------------------------------------------------------------------
(* Spec: process_input_file on one note file                                *)

MaxBody == 3

Banners ==
    {"[[2024 Daily TODO]] - [Week] 10 / [Day] 67",
     "[[0000 Daily TODO]] - [Week] 1 / [Day] 1",
     "[[2024 Daily TODO]] - [Week] 10 / [Day] 99999999"}

TagLines == {"#daily #03-06-2024", "#3-6-2024", "#2024-03-06", "#daily"}

FileLines ==
    {"### Wednesday", "  ### Wednesday", "### All", "- [x] Workout", "- [X] Run", "some text"}

\* a note: an optional banner, an optional Tags section, at most MaxBody lines
Notes ==
    {h \o t \o b :
        h \in {<<>>} \cup {<<x>> : x \in Banners},
        t \in {<<>>} \cup {<<"## Tags", x>> : x \in TagLines},
        b \in UNION {[1..n -> FileLines] : n \in 0..MaxBody}}

InputYears == {<<"2","0","2","4">>, <<"2","0","2","3">>}

Init ==
    /\ content = <<>>
    /\ input_year = None
    /\ pc = "idle"
    /\ pos = 0
    /\ line = ""
    /\ event = no_event
    /\ year = None
    /\ day_of_year = None
    /\ date_from_tags = None
    /\ day_to_date_map = <<>>
    /\ task_stack = <<>>
    /\ prev_indent_level = 0
    /\ current_date = None
    /\ stats = new_stats
    /\ raised = "none"
    /\ runs = <<>>

\* process_input_file(file_path, input_year, stats) up to the call of
\* extract_tasks: the file is read, the anchors extracted and the map chosen
Begin ==
    /\ pc = "idle"
    /\ \E c \in Notes, iy \in InputYears :
        \E r \in {process_input_file(c, iy)} :
            /\ content' = c
            /\ input_year' = Some(iy)
            /\ year' = r.anchor.year
            /\ day_of_year' = r.anchor.day_of_year
            /\ date_from_tags' = r.anchor.date
            /\ day_to_date_map' = r.value
            /\ raised' = r.raised
            /\ pc' = IF r.raised # "none" THEN "raised"
                     ELSE IF r.scan THEN "extract_tasks" ELSE "done"
    /\ UNCHANGED <<pos, line, event, task_stack, prev_indent_level, current_date, stats,
                   runs>>

\* process_input_file(..., use_ai=True): the file goes to the AI integrator,
\* whatever it holds, and the stats are not touched
BeginAI ==
    /\ pc = "idle"
    /\ pc' = "done"
    /\ UNCHANGED <<anchors, pos, line, event, task_stack, prev_indent_level, current_date,
                   stats, raised>>

FileStep ==
    /\ pc = "extract_tasks"
    /\ pos < Len(content)
    /\ pos' = pos + 1
    /\ UNCHANGED <<anchors, pc, raised>>

FileHeading == FileStep /\ scan_heading(content[pos + 1])

FileTask == FileStep /\ scan_task(content[pos + 1])

FileSkipped == FileStep /\ scan_skipped(content[pos + 1])

FileOther == FileStep /\ scan_other(content[pos + 1])

\* extract_tasks and process_input_file return
Return ==
    /\ pc = "extract_tasks"
    /\ pos = Len(content)
    /\ pc' = "done"
    /\ UNCHANGED <<anchors, pos, line, event, task_stack, prev_indent_level, current_date,
                   stats, raised>>

Next == Begin \/ BeginAI \/ FileHeading \/ FileTask \/ FileSkipped \/ FileOther \/ Return

Spec == Init /\ [][Next]_vars


-----------------------------------------------------------------------------
(* SpecDate: build_day_to_date_map on bounded arguments                     *)

FirstYear == 2023
NumYears == 2
MaxHeadings == 2

\* the years of the calendar sweep: a window of years and three century years
Years == FirstYear..(FirstYear + NumYears - 1) \cup {1900, 2000, 2100}

DaysInYear(y) == IF IsLeap(y) THEN 366 ELSE 365

HeadingLines ==
    {"### Sunday", "### Monday", "### Tuesday", "### Wednesday", "#### thursday gym",
     "### FRIDAY", "#### Saturday", "### Notes", "  ### Wednesday", "some text"}

\* notes of at most n of these lines
HeadingNotes(n) == UNION {[1..k -> HeadingLines] : k \in 0..n}

\* banner anchors beside the sweep: the example of the spec, a day past the
\* end of its year, year 0000 and a day that leaves the calendar
ExtraAnchors == {<<2024, 67>>, <<2024, 400>>, <<0, 1>>, <<2024, 99999999>>}

\* tag dates is_valid_date accepts
FallbackDates ==
    {<<"0","3","-","0","6","-","2","0","2","4">>, <<"3","-","6","-","2","0","2","4">>,
     <<"1","2","-","2","9","-","2","0","2","4">>, <<"2","0","2","4","-","0","3","-","0","6">>}

InitDate ==
    /\ \/ /\ year \in {Some(y) : y \in Years}
          /\ day_of_year \in {Some(d) : d \in 1..DaysInYear(year[1])}
          /\ date_from_tags = None
          /\ content \in HeadingNotes(1)
       \/ /\ \E a \in ExtraAnchors : year = Some(a[1]) /\ day_of_year = Some(a[2])
          /\ date_from_tags = None
          /\ content \in HeadingNotes(MaxHeadings)
       \/ /\ year = None
          /\ day_of_year = None
          /\ date_from_tags \in {None} \cup {Some(d) : d \in FallbackDates}
          /\ content \in HeadingNotes(MaxHeadings)
    /\ input_year = None
    /\ pc = "args"
    /\ pos = 0
    /\ line = ""
    /\ event = no_event
    /\ day_to_date_map = <<>>
    /\ task_stack = <<>>
    /\ prev_indent_level = 0
    /\ current_date = None
    /\ stats = new_stats
    /\ raised = "none"
    /\ runs = <<>>

\* build_day_to_date_map(year, day_of_year, content, fallback_date) returns
\* its map or raises
MapDays ==
    /\ pc = "args"
    /\ \E r \in {build_day_to_date_map(year, day_of_year, content, date_from_tags)} :
        /\ day_to_date_map' = r.value
        /\ raised' = r.raised
        /\ pc' = IF r.raised = "none" THEN "returned" ELSE "raised"
    /\ UNCHANGED <<content, input_year, year, day_of_year, date_from_tags, pos, line, event,
                   task_stack, prev_indent_level, current_date, stats, runs>>

NextDate == MapDays

SpecDate == InitDate /\ [][NextDate]_vars


-----------------------------------------------------------------------------
(* SpecTags: extract_date_from_tags on bounded notes                        *)

MaxTagNote == 3

TagNoteLines ==
    {"## Tags", " ## Tags ", "#daily #03-06-2024", "#3-6-2024 #2024-03-06",
     "# #13-01-2024 03-06-2024", "", "some text"}

\* notes of at most MaxTagNote of these lines
TagNotes == UNION {[1..n -> TagNoteLines] : n \in 0..MaxTagNote}

InitTags ==
    /\ content \in TagNotes
    /\ input_year = None
    /\ pc = "tags"
    /\ pos = 0
    /\ line = ""
    /\ event = no_event
    /\ year = None
    /\ day_of_year = None
    /\ date_from_tags = None
    /\ day_to_date_map = <<>>
    /\ task_stack = <<>>
    /\ prev_indent_level = 0
    /\ current_date = None
    /\ stats = new_stats
    /\ raised = "none"
    /\ runs = <<>>

\* extract_date_from_tags(content) returns
ExtractTags ==
    /\ pc = "tags"
    /\ \E r \in {extract_date_from_tags(content)} : date_from_tags' = r
    /\ pc' = "tags returned"
    /\ UNCHANGED <<content, input_year, year, day_of_year, day_to_date_map, pos, line, event,
                   task_stack, prev_indent_level, current_date, stats, raised, runs>>

NextTags == ExtractTags

SpecTags == InitTags /\ [][NextTags]_vars

-----------------------------------------------------------------------------
(* SpecRun: one call of extract_tasks on a note that is kept, so that the   *)
(* chains it records can be compared with the lines of the note             *)

MaxRun == 4

RunLines ==
    {"#### thursday gym", "### Notes", "some text", "- [X] Run",
     "- [x] Workout", " - [ ] Study Hebrew", "  - [ ] Bench press"}

\* notes of at most n of these lines
RunNotes(n) == UNION {[1..k -> RunLines] : k \in 0..n}

\* the map of a note of day 67 of 2024 with a Wednesday and a Thursday heading
RunMap ==
    build_day_to_date_map(Some(2024), Some(67),
                          <<"### Wednesday", "#### thursday gym">>, None).value

\* extract_tasks(content, RunMap, stats) is called with fresh stats on one
\* of the notes
InitCall(notes) ==
    /\ content \in notes
    /\ input_year = None
    /\ pc = "extract_tasks"
    /\ pos = 0
    /\ line = ""
    /\ event = no_event
    /\ year = None
    /\ day_of_year = None
    /\ date_from_tags = None
    /\ day_to_date_map = RunMap
    /\ task_stack = <<>>
    /\ prev_indent_level = 0
    /\ current_date = None
    /\ stats = new_stats
    /\ raised = "none"
    /\ runs = <<>>

InitRun == InitCall(RunNotes(MaxRun))

NextRun == FileHeading \/ FileTask \/ FileSkipped \/ FileOther \/ Return

SpecRun == InitRun /\ [][NextRun]_vars

-----------------------------------------------------------------------------
(* SpecTwice: extract_tasks called twice over the same note and the same    *)
(* map, each time with fresh stats                                          *)

MaxTwice == 3

InitTwice == InitCall(RunNotes(MaxTwice))

\* the first call returns; its stats are set aside and the second call
\* starts, with fresh stats
CallAgain ==
    /\ pc = "extract_tasks"
    /\ pos = Len(content)
    /\ runs = <<>>
    /\ runs' = <<stats>>
    /\ stats' = new_stats
    /\ \E l \in {call_locals([task_stack |-> task_stack,
                               prev_indent_level |-> prev_indent_level,
                               current_date |-> current_date])} :
          /\ task_stack' = l.task_stack
          /\ prev_indent_level' = l.prev_indent_level
          /\ current_date' = l.current_date
    /\ pos' = 0
    /\ line' = ""
    /\ event' = no_event
    /\ UNCHANGED <<content, input_year, year, day_of_year, date_from_tags, day_to_date_map,
                   pc, raised>>

\* the second call returns
ReturnAgain ==
    /\ pc = "extract_tasks"
    /\ pos = Len(content)
    /\ Len(runs) = 1
    /\ runs' = Append(runs, stats)
    /\ pc' = "done"
    /\ UNCHANGED <<content, input_year, year, day_of_year, date_from_tags, day_to_date_map,
                   pos, line, event, task_stack, prev_indent_level, current_date, stats,
                   raised>>

NextTwice == FileHeading \/ FileTask \/ FileSkipped \/ FileOther \/ CallAgain \/ ReturnAgain

SpecTwice == InitTwice /\ [][NextTwice]_vars

-----------------------------------------------------------------------------
(* Properties                                                               *)

\* the text of a workout task: lower-cased, it holds "workout" or the emoji
IsWorkoutText(t) ==
    contains(lower(t), <<"w","o","r","k","o","u","t">>)
        \/ contains(lower(t), <<"U+1F3CB","U+FE0F">>)

\* the workout list of date d in the stats st, empty when d has no entry
WorkoutsOf(st, d) ==
    IF d \in DOMAIN st.tasks_by_date THEN st.tasks_by_date[d].workouts ELSE <<>>

\* the sum of f[k] over the keys ks
RECURSIVE SumOver(_, _)
SumOver(f, ks) ==
    IF ks = {} THEN 0
    ELSE LET k == CHOOSE x \in ks : TRUE IN f[k] + SumOver(f, ks \ {k})

\* a zero-padded MM-DD-YYYY string
IsPaddedMDY(d) ==
    /\ Len(d) = 10
    /\ d[3] = "-"
    /\ d[6] = "-"
    /\ \A i \in {1, 2, 4, 5, 7, 8, 9, 10} : IsDigit(d[i])

\* the weekday of the calendar date <<year, month, day>>, Sunday = 0 ..
\* Saturday = 6, by Zeller's congruence
TrueWeekday(ymd) ==
    LET m == IF ymd[2] < 3 THEN ymd[2] + 12 ELSE ymd[2]
        y == IF ymd[2] < 3 THEN ymd[1] - 1 ELSE ymd[1]
        h == (ymd[3] + ((13 * (m + 1)) \div 5) + (y % 100) + ((y % 100) \div 4)
                + ((y \div 100) \div 4) + 5 * (y \div 100)) % 7
    IN  (h + 6) % 7

\* the calendar date <<year, month, day>> a MM-DD-YYYY string names
DateOfMDY(d) == <<int(SubSeq(d, 7, 10)), int(SubSeq(d, 1, 2)), int(SubSeq(d, 4, 5))>>

\* the weekday names that are the first word of a heading of the note c: a
\* line that starts with "### " or "#### "
WeekdayHeadings(c) ==
    {n \in DOMAIN day_map :
        \E k \in 1..Len(c) :
            \E mark \in {<<"#","#","#"," ">>, <<"#","#","#","#"," ">>} :
                /\ startswith(L(c[k]), mark)
                /\ title(first_word(strip(From(L(c[k]), Len(mark))))) = n}

\* build_day_to_date_map was called in structured mode and returned
StructuredReturn == pc = "returned" /\ year # None /\ day_of_year # None

\* the ordinal of day number doy of year y: January 1 advanced by doy - 1 days
DayOfYearOrdinal(y, doy) == Ymd2Ord(y, 1, 1) + (doy - 1)

\* the last line consumed recorded a task under a date
TaskRecorded == pos' = pos + 1 /\ event'.kind = "task" /\ event'.date # None

-----------------------------------------------------------------------------
\* C1: a task line that is the child of a workout root (a chain of two entries
\* whose root text holds "workout" or the emoji), recorded under a date,
\* appends exactly its own {type: text, status} record to the workouts of
\* that date; the code does not (it classifies by the text of the child).
C1_ChildOfWorkoutRootIsRecorded ==
    [][(TaskRecorded /\ Len(event'.chain) = 2 /\ IsWorkoutText(event'.chain[1].text))
          => WorkoutsOf(stats', event'.date[1])
               = WorkoutsOf(stats, event'.date[1])
                   \o <<[type   |-> event'.chain[2].text,
                         status |-> event'.chain[2].status]>>]_vars

\* C2: whatever the calls of extract_tasks so far, every date has
\* tasks_total >= tasks_completed >= 0, and the per-date totals and completed
\* counts sum to the global ones.
C2_CountersConsistent ==
    LET by_date == stats.tasks_by_date IN
    /\ \A d \in DOMAIN by_date :
          by_date[d].tasks_total >= by_date[d].tasks_completed
            /\ by_date[d].tasks_completed >= 0
    /\ SumOver([d \in DOMAIN by_date |-> by_date[d].tasks_total], DOMAIN by_date)
          = stats.tasks_total
    /\ SumOver([d \in DOMAIN by_date |-> by_date[d].tasks_completed], DOMAIN by_date)
          = stats.tasks_completed

\* C2 witness: two dates hold tasks, a completed one and one that is not
C2_TwoDatesCounted ==
    /\ Cardinality(DOMAIN stats.tasks_by_date) = 2
    /\ stats.tasks_total = 2
    /\ stats.tasks_completed = 1

\* C3: in structured mode with at least one weekday heading, the keys of the
\* returned map are exactly the weekday names of the headings, each value is
\* the base date moved by dayIndex(name) - baseWeekday days and formatted
\* MM-DD-YYYY (one key and one date however many headings name the day), and
\* for year 2024, day 67, Wednesday is "03-06-2024".
C3_StructuredMapIsOffsetFromBase ==
    (StructuredReturn /\ WeekdayHeadings(content) # {}) =>
        LET base == DayOfYearOrdinal(year[1], day_of_year[1])
            baseWeekday == TrueWeekday(Ord2Ymd(base))
        IN  /\ DOMAIN day_to_date_map = WeekdayHeadings(content)
            /\ \A n \in DOMAIN day_to_date_map :
                  /\ IsPaddedMDY(day_to_date_map[n])
                  /\ day_to_date_map[n]
                       = format_mdY(Ord2Ymd(base + (day_map[n] - baseWeekday)))
            /\ (year[1] = 2024 /\ day_of_year[1] = 67
                  /\ <<"W","e","d","n","e","s","d","a","y">> \in DOMAIN day_to_date_map)
                => day_to_date_map[<<"W","e","d","n","e","s","d","a","y">>]
                     = <<"0","3","-","0","6","-","2","0","2","4">>

\* C3 witness: day 67 of 2024 with two Wednesday headings gives one key
C3_TwoWednesdayHeadings ==
    /\ StructuredReturn
    /\ year = Some(2024)
    /\ day_of_year = Some(67)
    /\ content = <<"### Wednesday", "### Wednesday">>
    /\ day_to_date_map
         = (<<"W","e","d","n","e","s","d","a","y">> :> <<"0","3","-","0","6","-","2","0","2","4">>)

\* C4: in structured mode, for every day 1..365 (366 in a leap year) of a
\* year, (MondayIs0Weekday(baseDate) + 1) mod 7 is the weekday of the base
\* date with Sunday = 0, the base date is that day of that year, and every
\* mapped date falls on the weekday its key names, in the Sunday-to-Saturday
\* week of the base date, at most 6 days from it.
C4_MappedDatesFallOnNamedWeekday ==
    (StructuredReturn /\ day_of_year[1] \in 1..DaysInYear(year[1])) =>
        LET base == get_base_date(year[1], day_of_year[1]).value
            baseWeekday == python_to_template_day(weekday(base))
        IN  /\ Ord2Ymd(base)[1] = year[1]
            /\ base - Ymd2Ord(year[1], 1, 1) = day_of_year[1] - 1
            /\ baseWeekday = TrueWeekday(Ord2Ymd(base))
            /\ \A n \in DOMAIN day_to_date_map :
                  LET date == DateOfMDY(day_to_date_map[n])
                      ord  == Ymd2Ord(date[1], date[2], date[3])
                  IN  /\ TrueWeekday(date) = day_map[n]
                      /\ ord - TrueWeekday(date) = base - TrueWeekday(Ord2Ymd(base))
                      /\ ord - base \in -6..6

\* C4 witness: day 1 of 2024 is a Monday, and Sunday maps to the last day of
\* 2023
C4_SundayBeforeNewYear ==
    /\ StructuredReturn
    /\ year = Some(2024)
    /\ day_of_year = Some(1)
    /\ content = <<"### Sunday">>
    /\ day_to_date_map
         = (<<"S","u","n","d","a","y">> :> <<"1","2","-","3","1","-","2","0","2","3">>)

\* C5: the core is total: no call of process_input_file on a note ends in an
\* exception, whatever the banner and the tags of the note; the code raises
\* for a banner year 0000 and for a day that leaves the calendar.
C5_NoCallRaises == raised = "none" /\ pc # "raised"

\* C6: every line whose trimmed form starts with "- [" is recorded as a
\* task, completed when its fourth character is "x" and not completed
\* otherwise, with the text after the fifth character, trimmed; the code
\* records only "- [x]" and "- [ ]" lines.
C6_EveryCheckboxLineIsATask ==
    (event.kind # "start" /\ startswith(strip(L(line)), <<"-"," ","[">>)) =>
        /\ event.kind = "task"
        /\ LET t    == strip(L(line))
               leaf == event.chain[Len(event.chain)]
           IN  /\ leaf.status = (IF Len(t) >= 4 /\ t[4] = "x"
                                 THEN "completed" ELSE "not completed")
               /\ leaf.text = strip(From(t, 5))

\* C7: a line that is no heading and records no task clears task_stack and
\* resets prev_indent_level to 0; the code leaves both untouched for a
\* "- [" line that parse_task_line rejects.
C7_OtherLinesBreakTheHierarchy ==
    event.kind \notin {"start", "heading", "task"} =>
        task_stack = <<>> /\ prev_indent_level = 0

\* C8: when the note has a banner and a tag date, every date its tasks are
\* recorded under is a date of the map built from the banner; the code falls
\* back to the tag date when that map is empty.
C8_OnlyBannerDatesAreKeys ==
    (year # None /\ day_of_year # None /\ date_from_tags # None) =>
        LET banner_map == build_day_to_date_map(year, day_of_year, content, None).value
        IN  DOMAIN stats.tasks_by_date \subseteq {banner_map[n] : n \in DOMAIN banner_map}

\* C9: every key of tasks_by_date is a zero-padded MM-DD-YYYY string; the
\* code uses the tag date as written, so #3-6-2024 gives the key "3-6-2024".
C9_KeysAreZeroPadded == \A d \in DOMAIN stats.tasks_by_date : IsPaddedMDY(d)

\* C10: a task recorded with a chain of exactly one entry whose text holds
\* "workout" or the emoji appends exactly one workout record to its date,
\* with the text of the task as the note writes it and its status; the code
\* records the lower-cased text.
C10_SingleWorkoutKeepsItsText ==
    [][(TaskRecorded /\ Len(event'.chain) = 1 /\ IsWorkoutText(event'.chain[1].text))
          => WorkoutsOf(stats', event'.date[1])
               = WorkoutsOf(stats, event'.date[1])
                   \o <<[type   |-> event'.chain[1].text,
                         status |-> event'.chain[1].status]>>]_vars


-----------------------------------------------------------------------------
\* the task a task line holds, as parse_task_line returns it
TaskOf(nm) == parse_task_line(strip(L(nm)))[1]

\* the last line consumed recorded a task and lost d > 0 characters of
\* indentation
IndentDecreased ==
    event.kind = "task" /\ event.indent < event.indent_before

\* C11: after a line that is no heading and records no task, the next line
\* that records a task records it with a chain of exactly one entry; the code
\* keeps the stack over a "- [" line that parse_task_line rejects (C7).
C11_TaskAfterInterruptionIsRoot ==
    [][(pos' = pos + 1 /\ event.kind \in {"other", "skipped"} /\ event'.kind = "task")
          => Len(event'.chain) = 1]_vars

\* C12: when the indentation of a task line decreases by at least the length
\* of the stack, nothing is raised and the chain recorded is the new task
\* alone.
C12_OverPopLeavesTheNewTask ==
    (IndentDecreased /\ event.indent_before - event.indent >= Len(event.stack_before)) =>
        /\ raised = "none"
        /\ event.chain = <<TaskOf(line)>>
        /\ task_stack = event.chain

\* C12 witness: a stack of two entries met by a task line that lost four
\* characters of indentation
C12_FourBackFromDepthTwo ==
    /\ IndentDecreased
    /\ event.indent_before - event.indent = 4
    /\ Len(event.stack_before) = 2
    /\ Len(event.chain) = 1


\* C14: a task read under no date (None, or an empty date) leaves the stats
\* as they were: no counter moves and no date entry, workout or habit record
\* appears.
C14_UndatedTaskChangesNothing ==
    [][(pos' = pos + 1 /\ event'.kind = "task"
          /\ (event'.date = None \/ event'.date = Some(<<>>)))
          => stats' = stats]_vars

\* C14 witness: a task was read under no date after another one was counted,
\* and the counters still show one task
C14_UndatedTaskAfterACountedOne ==
    /\ event.kind = "task"
    /\ event.date = None
    /\ stats.tasks_total = 1
    /\ Cardinality(DOMAIN stats.tasks_by_date) = 1

\* C16: when the indentation of a task line decreases by d and the stack
\* holds more than d entries, the top d entries go, the new top is replaced by
\* the new task and the entries below are kept: the chain recorded has the old
\* length minus d, d counting characters of indentation.
C16_DecreasePopsTheIndentDifference ==
    (IndentDecreased /\ event.indent_before - event.indent < Len(event.stack_before)) =>
        LET d   == event.indent_before - event.indent
            old == event.stack_before
        IN  /\ event.chain = SubSeq(old, 1, Len(old) - d - 1) \o <<TaskOf(line)>>
            /\ Len(event.chain) = Len(old) - d
            /\ task_stack = event.chain

\* C16 witness: a stack of three entries, the deepest four characters in,
\* met by a task line two characters back: one entry is left
C16_TwoBackFromDepthThree ==
    /\ IndentDecreased
    /\ event.indent_before = 4
    /\ event.indent = 2
    /\ Len(event.stack_before) = 3
    /\ Len(event.chain) = 1

\* C18: when the indentation of a task line increases, by however many
\* characters, the task is appended: the chain recorded is the stack as it
\* was, followed by the new task.
C18_IncreasePushesOneEntry ==
    (event.kind = "task" /\ event.indent > event.indent_before) =>
        /\ event.chain = event.stack_before \o <<TaskOf(line)>>
        /\ Len(event.chain) = Len(event.stack_before) + 1
        /\ task_stack = event.chain

\* C18 witness: four more characters of indentation push one entry
C18_FourDeeperPushesOne ==
    /\ event.kind = "task"
    /\ event.indent - event.indent_before = 4
    /\ Len(event.stack_before) = 1
    /\ Len(event.chain) = 2

\* C19: when the indentation of a task line is the one of the task before,
\* the task replaces the top of a non-empty stack, the entries below and the
\* length unchanged, or is pushed onto an empty stack: the sibling it follows
\* does not stay on the stack.
C19_SameIndentReplacesTheTop ==
    (event.kind = "task" /\ event.indent = event.indent_before) =>
        LET old == event.stack_before
        IN  /\ event.chain = (IF old = <<>> THEN <<TaskOf(line)>>
                              ELSE SubSeq(old, 1, Len(old) - 1) \o <<TaskOf(line)>>)
            /\ old # <<>> => Len(event.chain) = Len(old)
            /\ task_stack = event.chain

\* C19 witness: a second child at the indentation of the first replaces it
\* under their parent
C19_SecondChildReplacesTheFirst ==
    /\ event.kind = "task"
    /\ event.indent = event.indent_before
    /\ Len(event.stack_before) = 2
    /\ event.stack_before[2] # TaskOf(line)
    /\ event.chain = <<event.stack_before[1], TaskOf(line)>>


\* the date of the first token of line that starts with "#" and whose
\* remainder is a date in MM-DD-YYYY or YYYY-MM-DD form, None without one
FirstDateToken(ln) ==
    LET tokens == split(strip(ln))
        dated  == {k \in 1..Len(tokens) :
                      /\ startswith(tokens[k], <<"#">>)
                      /\ is_valid_date(From(tokens[k], 1))}
    IN  IF dated = {} THEN None
        ELSE Some(From(tokens[CHOOSE k \in dated : \A j \in dated : k <= j], 1))

\* the date of the line right after the first line of c that trims to
\* "## Tags", None without such a line
DateAfterTagsHeading(c) ==
    LET heads == {k \in 1..Len(c) : strip(L(c[k])) = <<"#","#"," ","T","a","g","s">>}
        first == CHOOSE k \in heads : \A j \in heads : k <= j
    IN  IF heads = {} THEN None
        ELSE IF first = Len(c) THEN None
        ELSE FirstDateToken(L(c[first + 1]))

\* C15: extract_date_from_tags reads only the line right after the first
\* line that trims to "## Tags" and returns the date of its first date tag,
\* as written, or None; the code reads on past a second "## Tags" line that
\* follows the first.
C15_OnlyTheLineAfterTagsIsRead ==
    pc = "tags returned" => date_from_tags = DateAfterTagsHeading(content)


RecordsTask(c, k) ==
    is_checkbox_line(L(c[k])) /\ parse_task_line(strip(L(c[k]))) # None

\* line k of the note c is a reset: a heading or a line that is neither a
\* heading nor a "- [" line
IsReset(c, k) == is_heading_line(L(c[k])) \/ ~is_checkbox_line(L(c[k]))

\* the indentation of line k of the note c
IndentOf(c, k) == get_indent_level(L(c[k]))

\* the first line of the run of consecutive task lines that ends at line p
RunStart(c, p) ==
    CHOOSE s \in 1..p :
        /\ \A k \in s..p : RecordsTask(c, k)
        /\ s > 1 => ~RecordsTask(c, s - 1)

\* the run that ends at line p starts at indentation 0 right after a reset
\* (or at the start of the note) and only ever gets one character deeper
UnitStepRun(c, p) ==
    LET s == RunStart(c, p)
    IN  /\ s > 1 => IsReset(c, s - 1)
        /\ IndentOf(c, s) = 0
        /\ \A k \in (s + 1)..p :
              IndentOf(c, k) > IndentOf(c, k - 1) => IndentOf(c, k) = IndentOf(c, k - 1) + 1

\* the lines of the ancestors of line k in the tree the indentation of the
\* run from line s draws, root first, then k itself: the parent of a line is
\* the nearest line before it that is less indented
RECURSIVE AncestorLines(_, _, _)
AncestorLines(c, s, k) ==
    LET above == {j \in s..(k - 1) : IndentOf(c, j) < IndentOf(c, k)}
    IN  IF above = {} THEN <<k>>
        ELSE Append(AncestorLines(c, s, CHOOSE j \in above : \A i \in above : i <= j), k)

\* the tasks of the lines ks of the note c
TasksOfLines(c, ks) == [i \in 1..Len(ks) |-> TaskOf(c[ks[i]])]

\* C17: in a run of consecutive task lines that starts at indentation 0 right
\* after a reset and whose indentation only increases by one character at a
\* time, after every task line the stack holds indent_level + 1 entries and
\* the chain recorded is the ancestors of the task, root first, and the task.
C17_UnitStepRunsRecordTrueAncestors ==
    (pc = "extract_tasks" /\ event.kind = "task" /\ UnitStepRun(content, pos)) =>
        /\ Len(task_stack) = event.indent + 1
        /\ event.chain
             = TasksOfLines(content, AncestorLines(content, RunStart(content, pos), pos))

\* C17 witness: a run that goes down to the third level and one back, where
\* the chain recorded is the root and the new second-level task
C17_DownTwoAndOneBack ==
    /\ pc = "extract_tasks"
    /\ pos = 4
    /\ content = <<"- [x] Workout", " - [ ] Study Hebrew", "  - [ ] Bench press",
                   " - [ ] Study Hebrew">>
    /\ event.chain = <<TaskOf("- [x] Workout"), TaskOf(" - [ ] Study Hebrew")>>

\* the lines of the note c after its last heading line up to line p
SinceHeading(c, p) ==
    {k \in 1..p : \A j \in k..p : ~is_heading_line(L(c[j]))}

\* C20: a heading line sets current_date to the date the map gives for its
\* first word, title-cased, or to None when the map has no such key, empties
\* task_stack and resets prev_indent_level to 0; and every chain recorded is
\* made of tasks of lines after the most recent heading.
C20_HeadingsAreHardBoundaries ==
    /\ event.kind = "heading" =>
          LET marked == strip(L(line))
              text   == IF startswith(marked, <<"#","#","#","#"," ">>)
                        THEN From(marked, 5) ELSE From(marked, 4)
              word   == title(first_word(strip(text)))
          IN  /\ current_date = (IF word \in DOMAIN day_to_date_map
                                 THEN Some(day_to_date_map[word]) ELSE None)
              /\ task_stack = <<>>
              /\ prev_indent_level = 0
    /\ (pc = "extract_tasks" /\ event.kind = "task") =>
          LET since == {k \in SinceHeading(content, pos) : RecordsTask(content, k)}
          IN  /\ Len(event.chain) <= Cardinality(since)
              /\ \A i \in 1..Len(event.chain) :
                    \E k \in since : event.chain[i] = TaskOf(content[k])

\* C20 witness: a task two levels deep, a heading, and a task that is
\* recorded alone under the date of the heading
C20_ChainCutByAHeading ==
    /\ pc = "extract_tasks"
    /\ pos = 4
    /\ content = <<"- [x] Workout", " - [ ] Study Hebrew", "#### thursday gym",
                   "  - [ ] Bench press">>
    /\ current_date = Some(<<"0","3","-","0","7","-","2","0","2","4">>)
    /\ event.chain = <<TaskOf("  - [ ] Bench press")>>


\* the last heading line of the note c before line k, 0 without one
LastHeading(c, k) ==
    LET hs == {j \in 1..(k - 1) : is_heading_line(L(c[j]))}
    IN  IF hs = {} THEN 0 ELSE CHOOSE j \in hs : \A i \in hs : i <= j

\* current_date when line k of the note c is read with the map m: the date
\* of the most recent heading, None before the first one
DateAt(c, m, k) ==
    IF LastHeading(c, k) = 0 THEN None ELSE heading_date(L(c[LastHeading(c, k)]), m)

\* the checkbox lines among the first p lines of c (the trimmed line starts
\* with "- [") that are read under the date d
CheckboxLinesUnder(c, m, p, d) ==
    {k \in 1..p : is_checkbox_line(L(c[k])) /\ DateAt(c, m, k) = Some(d)}

\* a checkbox line is completed when its fourth character, trimmed, is "x"
IsCompletedLine(ln) == Len(strip(ln)) >= 4 /\ strip(ln)[4] = "x"

\* the dates of the map m
DatesOf(m) == {m[n] : n \in DOMAIN m}

\* C21: after extract_tasks over a note into fresh stats, tasks_total is the
\* number of checkbox lines read while current_date is set and
\* tasks_completed the number of those that are completed, globally and for
\* every date; the code does not count a "- [" line that parse_task_line
\* rejects (C6).
C21_EveryCheckboxLineIsCountedOnce ==
    pc = "done" =>
        LET under(d) == CheckboxLinesUnder(content, day_to_date_map, Len(content), d)
            done(d)  == {k \in under(d) : IsCompletedLine(L(content[k]))}
            dates    == DatesOf(day_to_date_map)
            all      == UNION {under(d) : d \in dates}
        IN  /\ stats.tasks_total = Cardinality(all)
            /\ stats.tasks_completed = Cardinality(UNION {done(d) : d \in dates})
            /\ DOMAIN stats.tasks_by_date = {d \in dates : under(d) # {}}
            /\ \A d \in DOMAIN stats.tasks_by_date :
                  /\ stats.tasks_by_date[d].tasks_total = Cardinality(under(d))
                  /\ stats.tasks_by_date[d].tasks_completed = Cardinality(done(d))


\* C22: the workout classification looks at the text of the last task of the
\* chain only: when it holds "workout" or the emoji and the chain has n > 1
\* entries, exactly n - 1 records are appended to the workouts of the date,
\* one per entry other than the root, in order, each with the text and the
\* status of that entry; when it does not, no record is appended, whatever
\* the texts of the ancestors.
C22_LeafTextTriggersWorkouts ==
    [][TaskRecorded =>
          LET chain  == event'.chain
              n      == Len(chain)
              before == WorkoutsOf(stats, event'.date[1])
              after  == WorkoutsOf(stats', event'.date[1])
          IN  /\ (IsWorkoutText(chain[n].text) /\ n > 1) =>
                    after = before \o [k \in 1..(n - 1) |->
                                          [type   |-> chain[k + 1].text,
                                           status |-> chain[k + 1].status]]
              /\ ~IsWorkoutText(chain[n].text) => after = before]_vars

\* C22 witness: a chain of three whose last task is a workout left two
\* records, of the second and the third entry, and none of the root
C22_TwoRecordsForAChainOfThree ==
    /\ event.kind = "task"
    /\ event.date # None
    /\ Len(event.chain) = 3
    /\ IsWorkoutText(event.chain[3].text)
    /\ ~IsWorkoutText(event.chain[2].text)
    /\ WorkoutsOf(stats, event.date[1])
         = <<[type |-> event.chain[2].text, status |-> event.chain[2].status],
             [type |-> event.chain[3].text, status |-> event.chain[3].status]>>


\* the habits of date d in the stats st, empty when d has no entry
HabitsOf(st, d) ==
    IF d \in DOMAIN st.tasks_by_date THEN st.tasks_by_date[d].habits ELSE <<>>

\* the records of the habit h of date d in the stats st, none without the key
HabitList(st, d, h) ==
    IF h \in DOMAIN HabitsOf(st, d) THEN HabitsOf(st, d)[h] ELSE <<>>

\* the habit phrases
HabitPhrases == {habits_list[k] : k \in 1..Len(habits_list)}

\* C23: a task recorded under a date appends, for each of the 8 habit
\* phrases its lower-cased text holds, exactly one {status} record with its
\* own status to the list of that phrase for the date, under every phrase it
\* holds, and leaves the lists of the other phrases as they were; the habit
\* keys are habit phrases and no key maps to an empty list.
C23_OneHabitRecordPerPhraseHeld ==
    [][TaskRecorded =>
          LET leaf == event'.chain[Len(event'.chain)]
              text == lower(leaf.text)
              d    == event'.date[1]
          IN  /\ Cardinality(HabitPhrases) = 8
              /\ \A h \in HabitPhrases :
                    HabitList(stats', d, h)
                      = HabitList(stats, d, h)
                          \o (IF contains(text, h)
                              THEN <<[status |-> leaf.status]>> ELSE <<>>)
              /\ \A e \in DOMAIN stats'.tasks_by_date :
                    /\ DOMAIN HabitsOf(stats', e) \subseteq HabitPhrases
                    /\ \A h \in DOMAIN HabitsOf(stats', e) : HabitsOf(stats', e)[h] # <<>>]_vars

\* C23 witness: one task whose text holds two phrases is recorded under
\* both, after a task of the same date that holds none
C23_TwoPhrasesInOneTask ==
    /\ event.kind = "task"
    /\ event.date # None
    /\ stats.tasks_total = 2
    /\ HabitsOf(stats, event.date[1])
         = (<<"m","a","s","s","a","g","e"," ","s","c","a","l","p">>
               :> <<[status |-> "completed"]>>)
           @@ (<<"r","e","d"," ","l","i","g","h","t"," ","m","a","s","k">>
               :> <<[status |-> "completed"]>>)


-----------------------------------------------------------------------------
(* SpecTask: process_task called directly, up to MaxCalls times on the same *)
(* stats, with chains the parser can hand over and the dates of a map       *)

MaxCalls == 2

\* chains of one, two and three tasks: workouts by the word and by the
\* emoji, habits, a workout under a habit, a plain task under a workout
TaskChains ==
    {<<TaskOf("- [x] Workout")>>,
     <<TaskOf("- [x] {WL} evening session")>>,
     <<TaskOf(" - [ ] Study Hebrew")>>,
     <<TaskOf("  - [ ] Bench press")>>,
     <<TaskOf("- [x] Workout"), TaskOf("  - [ ] Bench press")>>,
     <<TaskOf("  - [ ] Bench press"), TaskOf("- [x] Workout")>>,
     <<TaskOf("- [x] Workout"), TaskOf("  - [x] Squats"),
       TaskOf("    - [x] workout: massage scalp, red light mask")>>,
     <<TaskOf(" - [ ] Study Hebrew"), TaskOf("\t- [ ] take out trash")>>}

\* the dates extract_tasks can hold in current_date with RunMap
TaskDates == {None} \cup {Some(d) : d \in DatesOf(RunMap)}

InitTask ==
    /\ content = <<>>
    /\ input_year = None
    /\ pc = "process_task"
    /\ pos = 0
    /\ line = ""
    /\ event = no_event
    /\ year = None
    /\ day_of_year = None
    /\ date_from_tags = None
    /\ day_to_date_map = RunMap
    /\ task_stack = <<>>
    /\ prev_indent_level = 0
    /\ current_date = None
    /\ stats = new_stats
    /\ raised = "none"
    /\ runs = <<>>

\* process_task(task_stack.copy(), current_date, stats)
ProcessTask ==
    /\ pc = "process_task"
    /\ pos < MaxCalls
    /\ \E chain \in TaskChains, date \in TaskDates :
          /\ task_stack' = chain
          /\ current_date' = date
          /\ stats' = process_task(chain, date, stats)
          /\ event' = line_event("task", date, chain, 0, <<>>, 0)
    /\ pos' = pos + 1
    /\ line' = ""
    /\ UNCHANGED <<anchors, pc, prev_indent_level, raised>>

NextTask == ProcessTask

SpecTask == InitTask /\ [][NextTask]_vars


\* build_day_to_date_map was called in fallback mode, with a zero-padded
\* MM-DD-YYYY fallback date, and returned
FallbackReturn ==
    /\ pc = "returned"
    /\ ~(year # None /\ day_of_year # None)
    /\ date_from_tags # None
    /\ IsPaddedMDY(date_from_tags[1])

\* the ordinal of the calendar date a MM-DD-YYYY string names
OrdinalOfMDY(d) == Ymd2Ord(DateOfMDY(d)[1], DateOfMDY(d)[2], DateOfMDY(d)[3])

\* C24: in fallback mode the base weekday is 0 whatever the weekday of the
\* fallback date: a Sunday heading maps to the fallback date itself, a heading
\* with day index i to the fallback date plus i days, and every mapped date
\* lies in [fallback, fallback + 6 days].
C24_FallbackCountsFromSunday ==
    FallbackReturn =>
        LET fallback == OrdinalOfMDY(date_from_tags[1])
        IN  /\ \A n \in DOMAIN day_to_date_map :
                  /\ n \in DOMAIN day_map
                  /\ day_to_date_map[n] = format_mdY(Ord2Ymd(fallback + day_map[n]))
                  /\ OrdinalOfMDY(day_to_date_map[n]) - fallback \in 0..6
            /\ <<"S","u","n","d","a","y">> \in DOMAIN day_to_date_map
                  => day_to_date_map[<<"S","u","n","d","a","y">>] = date_from_tags[1]

\* C24 witness: the fallback date 03-06-2024 is a Wednesday, and yet Sunday
\* maps to it and Wednesday to three days later
C24_SundayIsTheFallbackWednesday ==
    /\ FallbackReturn
    /\ TrueWeekday(DateOfMDY(date_from_tags[1])) = 3
    /\ day_to_date_map
         = (<<"S","u","n","d","a","y">> :> <<"0","3","-","0","6","-","2","0","2","4">>)
           @@ (<<"W","e","d","n","e","s","d","a","y">>
                 :> <<"0","3","-","0","9","-","2","0","2","4">>)


\* build_day_to_date_map was called without an anchor: neither year and
\* day_of_year nor a fallback date
NoAnchor ==
    /\ ~(year # None /\ day_of_year # None)
    /\ (date_from_tags = None \/ date_from_tags = Some(<<>>))

\* C25: build_day_to_date_map returns an empty mapping when it gets neither
\* year and day_of_year nor a fallback date, and also when it gets an anchor
\* but the note has no heading whose first word is a weekday name; and the
\* keys of a result are weekday names. The code raises, whatever the
\* headings, for an anchor it cannot turn into a date (C5).
C25_EmptyMapWithoutAnchorOrWeekdayHeading ==
    pc # "args" =>
        /\ (NoAnchor \/ WeekdayHeadings(content) = {})
              => (pc = "returned" /\ day_to_date_map = <<>>)
        /\ DOMAIN day_to_date_map \subseteq DOMAIN day_map


\* the sequence s is the start of the sequence t
IsPrefix(s, t) == Len(s) <= Len(t) /\ SubSeq(t, 1, Len(s)) = s

\* the date entry new is the entry old, grown: no counter went down and
\* records were only appended at the end of its lists
EntryGrew(old, new) ==
    /\ new.tasks_total >= old.tasks_total
    /\ new.tasks_completed >= old.tasks_completed
    /\ IsPrefix(old.workouts, new.workouts)
    /\ DOMAIN old.habits \subseteq DOMAIN new.habits
    /\ \A h \in DOMAIN old.habits : IsPrefix(old.habits[h], new.habits[h])

\* C26: on every step of a run the stats only grow: no key of tasks_by_date
\* goes, no counter goes down, every workout and habit list keeps what it
\* held and gets records at its end only; and a task recorded for the date d
\* changes no entry of tasks_by_date other than the one of d.
C26_StatsOnlyGrow ==
    [][/\ stats'.tasks_total >= stats.tasks_total
       /\ stats'.tasks_completed >= stats.tasks_completed
       /\ DOMAIN stats.tasks_by_date \subseteq DOMAIN stats'.tasks_by_date
       /\ \A d \in DOMAIN stats.tasks_by_date :
             EntryGrew(stats.tasks_by_date[d], stats'.tasks_by_date[d])
       /\ TaskRecorded =>
             \A e \in DOMAIN stats'.tasks_by_date \ {event'.date[1]} :
                 /\ e \in DOMAIN stats.tasks_by_date
                 /\ stats'.tasks_by_date[e] = stats.tasks_by_date[e]]_vars

\* C26 witness: a workout was recorded for a second date, and the entry of
\* the first date still holds its own
C26_SecondDateBesideTheFirst ==
    /\ event.kind = "task"
    /\ event.date # None
    /\ stats.tasks_total = 2
    /\ \E e \in DOMAIN stats.tasks_by_date :
          /\ e # event.date[1]
          /\ stats.tasks_by_date[e].workouts # <<>>
          /\ WorkoutsOf(stats, event.date[1]) # <<>>


-----------------------------------------------------------------------------
(* SpecMerge: extract_tasks over a first note; then over a second note,     *)
(* once into fresh stats and once into the stats the first note left        *)

MaxMerge == 2

MergeLines ==
    {"#### thursday gym", "### Wednesday", "- [x] {WL} evening session",
     "    - [x] workout: massage scalp, red light mask", "- [X] Run", "some text"}

\* notes of at most MaxMerge of these lines
MergeNotes == UNION {[1..k -> MergeLines] : k \in 0..MaxMerge}

InitMerge == InitCall(MergeNotes)

\* the call for the first note returns; its stats are set aside and
\* extract_tasks is called for a second note with fresh stats
MergeFresh ==
    /\ pc = "extract_tasks"
    /\ pos = Len(content)
    /\ runs = <<>>
    /\ runs' = <<stats>>
    /\ stats' = new_stats
    /\ content' \in MergeNotes
    /\ \E l \in {call_locals([task_stack |-> task_stack,
                               prev_indent_level |-> prev_indent_level,
                               current_date |-> current_date])} :
          /\ task_stack' = l.task_stack
          /\ prev_indent_level' = l.prev_indent_level
          /\ current_date' = l.current_date
    /\ pos' = 0
    /\ line' = ""
    /\ event' = no_event
    /\ UNCHANGED <<input_year, year, day_of_year, date_from_tags, day_to_date_map, pc, raised>>

\* that call returns; its stats are set aside and extract_tasks is called
\* for the second note again, with the stats the first note left
MergeShared ==
    /\ pc = "extract_tasks"
    /\ pos = Len(content)
    /\ Len(runs) = 1
    /\ runs' = Append(runs, stats)
    /\ stats' = runs[1]
    /\ \E l \in {call_locals([task_stack |-> task_stack,
                               prev_indent_level |-> prev_indent_level,
                               current_date |-> current_date])} :
          /\ task_stack' = l.task_stack
          /\ prev_indent_level' = l.prev_indent_level
          /\ current_date' = l.current_date
    /\ pos' = 0
    /\ line' = ""
    /\ event' = no_event
    /\ UNCHANGED <<content, input_year, year, day_of_year, date_from_tags, day_to_date_map,
                   pc, raised>>

\* the call into the shared stats returns
MergeReturn ==
    /\ pc = "extract_tasks"
    /\ pos = Len(content)
    /\ Len(runs) = 2
    /\ pc' = "done"
    /\ UNCHANGED <<anchors, pos, line, event, task_stack, prev_indent_level, current_date,
                   stats, raised>>

NextMerge ==
    FileHeading \/ FileTask \/ FileSkipped \/ FileOther
        \/ MergeFresh \/ MergeShared \/ MergeReturn

SpecMerge == InitMerge /\ [][NextMerge]_vars

\* the entry of a date both stats hold: counters summed, the lists of a
\* followed by the lists of b
merge_entries(a, b) ==
    [tasks_total     |-> a.tasks_total + b.tasks_total,
     tasks_completed |-> a.tasks_completed + b.tasks_completed,
     workouts        |-> a.workouts \o b.workouts,
     habits          |-> [h \in DOMAIN a.habits \cup DOMAIN b.habits |->
                             (IF h \in DOMAIN a.habits THEN a.habits[h] ELSE <<>>)
                               \o (IF h \in DOMAIN b.habits THEN b.habits[h] ELSE <<>>)]]

\* the merge of the stats a and b: the union of their date keys, counters
\* summed and lists concatenated for a date both hold
merge_stats(a, b) ==
    [tasks_total     |-> a.tasks_total + b.tasks_total,
     tasks_completed |-> a.tasks_completed + b.tasks_completed,
     tasks_by_date   |-> [d \in DOMAIN a.tasks_by_date \cup DOMAIN b.tasks_by_date |->
                             IF d \notin DOMAIN b.tasks_by_date THEN a.tasks_by_date[d]
                             ELSE IF d \notin DOMAIN a.tasks_by_date THEN b.tasks_by_date[d]
                             ELSE merge_entries(a.tasks_by_date[d], b.tasks_by_date[d])]]

\* C27: processing a note A and then a note B into the same stats gives the
\* merge of the stats each note gives alone: the union of the date keys,
\* counters summed, the workout and habit lists of A followed by those of B,
\* also when both notes record tasks for the same date.
C27_SharedStatsAreTheMerge ==
    (pc = "done" /\ Len(runs) = 2) => stats = merge_stats(runs[1], runs[2])

\* C27 witness: both notes recorded a workout for the same date, a different
\* one each, and the shared stats hold the one of the first note first
C27_SameDateInBothNotes ==
    /\ pc = "done"
    /\ Len(runs) = 2
    /\ \E d \in DOMAIN runs[1].tasks_by_date \cap DOMAIN runs[2].tasks_by_date :
          /\ Len(runs[1].tasks_by_date[d].workouts) = 1
          /\ Len(runs[2].tasks_by_date[d].workouts) = 1
          /\ runs[1].tasks_by_date[d].workouts # runs[2].tasks_by_date[d].workouts
          /\ stats.tasks_by_date[d].workouts
               = runs[1].tasks_by_date[d].workouts \o runs[2].tasks_by_date[d].workouts
          /\ stats.tasks_by_date[d].tasks_total = 2


\* C28: every call of process_task by extract_tasks, under a date or not,
\* gets a chain that is not empty and ends with the task of the line just
\* read, its status and its text, whatever the lines and indentations before;
\* nothing is raised.
C28_ChainEndsWithTheTaskOfTheLine ==
    event.kind = "task" =>
        /\ event.chain # <<>>
        /\ event.chain[Len(event.chain)]
             = [status |-> IF strip(L(line))[4] = "x" THEN "completed" ELSE "not completed",
                text   |-> strip(From(strip(L(line)), 5))]
        /\ task_stack = event.chain
        /\ raised = "none"

\* C28 witness: a task line three characters back from a stack of three
\* empties the stack, and the chain handed over is that task alone
C28_TaskAloneAfterTheStackEmptied ==
    /\ event.kind = "task"
    /\ Len(event.stack_before) = 3
    /\ event.indent_before - event.indent = 3
    /\ event.chain = <<[status |-> "not completed",
                        text   |-> <<"S","t","u","d","y"," ","H","e","b","r","e","w">>]>>


\* C29: for a call of build_day_to_date_map with an anchor that returns,
\* every line of the note that extract_tasks takes as a heading and whose
\* first word, title-cased, is a weekday name has that name as a key of the
\* map, leading whitespace or not; the code of the mapper tests the line as
\* it is where extract_tasks tests the trimmed line.
C29_ParserHeadingsAreMapKeys ==
    (pc = "returned" /\ ~NoAnchor) =>
        \A k \in 1..Len(content) :
            (is_heading_line(L(content[k])) /\ day_name(L(content[k])) \in DOMAIN day_map)
                => day_name(L(content[k])) \in DOMAIN day_to_date_map



-----------------------------------------------------------------------------
(* SpecFrame: extract_tasks on a kept note of at most MaxFrame lines, with  *)
(* the map process_input_file hands over for the note and its anchor        *)

MaxFrame == 3

FrameLines ==
    {"### All", "#### thursday gym", "### Notes", "- [x] Workout", "- [X] Run", "some text"}

\* the head of a note: the banner of day 67 of 2024, or a Tags section with
\* the date 03-06-2024
FrameHeads ==
    {<<"[[2024 Daily TODO]] - [Week] 10 / [Day] 67">>, <<"## Tags", "#daily #03-06-2024">>}

\* notes of a head and at most MaxFrame of these lines
FrameNotes ==
    {h \o b : h \in FrameHeads, b \in UNION {[1..k -> FrameLines] : k \in 0..MaxFrame}}

\* process_input_file(file_path, "2024", stats) has read the note and chosen
\* the map, and calls extract_tasks with it
InitFrame ==
    /\ content \in FrameNotes
    /\ input_year = Some(<<"2","0","2","4">>)
    /\ pc = "extract_tasks"
    /\ pos = 0
    /\ line = ""
    /\ event = no_event
    /\ \E r \in {process_input_file(content, input_year[1])} :
          /\ r.raised = "none"
          /\ r.scan
          /\ year = r.anchor.year
          /\ day_of_year = r.anchor.day_of_year
          /\ date_from_tags = r.anchor.date
          /\ day_to_date_map = r.value
    /\ task_stack = <<>>
    /\ prev_indent_level = 0
    /\ current_date = None
    /\ stats = new_stats
    /\ raised = "none"
    /\ runs = <<>>

NextFrame == FileHeading \/ FileTask \/ FileSkipped \/ FileOther \/ Return

SpecFrame == InitFrame /\ [][NextFrame]_vars

\* process_input_file's single_day_map for the date d
IsSingleDayMap(m) == DOMAIN m = {<<"A","l","l">>}

\* C30: current_date is None when extract_tasks starts and only a heading
\* line changes it; so a task line is recorded exactly when the most recent
\* heading before it has a first word, title-cased, that is a key of the map,
\* and then under the date of that key: never before the first heading, and
\* with the single_day_map only under a heading whose first word is "All".
C30_OnlyHeadingsMoveTheDate ==
    /\ []((pc = "extract_tasks" /\ pos = 0) => current_date = None)
    /\ [][/\ current_date' # current_date
                => (pos' = pos + 1 /\ is_heading_line(L(content'[pos'])))
          /\ (pos' = pos + 1 /\ event'.kind = "task") =>
                LET h     == LastHeading(content', pos')
                    keyed == h # 0 /\ day_name(L(content'[h])) \in DOMAIN day_to_date_map'
                IN  /\ stats' # stats <=> keyed
                    /\ keyed =>
                          /\ event'.date = Some(day_to_date_map'[day_name(L(content'[h]))])
                          /\ stats'.tasks_total = stats.tasks_total + 1
                          /\ event'.date[1] \in DOMAIN stats'.tasks_by_date
                    /\ (IsSingleDayMap(day_to_date_map') /\ stats' # stats)
                          => day_name(L(content'[h])) = <<"A","l","l">>]_vars

\* C30 witness: with the single_day_map, the task before the first heading
\* was dropped and the one under "### All" recorded
C30_OnlyTheTaskUnderAllIsRecorded ==
    /\ pc = "extract_tasks"
    /\ IsSingleDayMap(day_to_date_map)
    /\ pos = Len(content)
    /\ content = <<"## Tags", "#daily #03-06-2024",
                   "- [x] Workout", "### All", "- [x] Workout">>
    /\ stats.tasks_total = 1

=============================================================================
